---------------------------- MODULE Spec2Model ----------------------------
(***************************************************************************)
(* dismaland-watcher: the poller (src/shared/logging.js, lines 274-376,    *)
(* the Poller module) and its consumer (src/app.js).                       *)
(*                                                                         *)
(* A timer fires poll() repeatedly.  Each poll() fans out one HTTP GET per *)
(* configured page through async.map; each page's waterfall hands the      *)
(* response to processPage, which yields an error, false or true.          *)
(* async.map joins the page checks: its final callback runs once, on the   *)
(* first error handed to it or when every page has completed, whichever    *)
(* comes first.  The final callback reduces the results array to a status  *)
(* and invokes the consumer, which compares the result with the last one   *)
(* it stored with `_.eq` and on a difference stores it and sends an email  *)
(* and a push note.                                                        *)
(*                                                                         *)
(* lodash: the sources are written against lodash 3.x (`_.map` with a      *)
(* thisArg at logging.js:206-208, `_.eq` used to compare two objects at    *)
(* app.js:17), where `_.eq` is the alias of `_.isEqual`, a deep comparison *)
(* by value.                                                               *)
(*                                                                         *)
(* async: every release calls async.map's final callback on the first      *)
(* error or after the last completion, once.  The releases differ in the   *)
(* turn of the event loop in which a page's outcome reaches async.map: in  *)
(* 2.x it is the turn of superagent's `end` handler; in 0.9 and 1.x        *)
(* waterfall passes it on through setImmediate, so it is a later turn, and *)
(* those turns run in the order of the `end` handlers that queued them     *)
(* (0.9 also sends the GETs from a setImmediate callback queued by the     *)
(* timer's turn).  The model keeps one step per page check, HttpEnd: the   *)
(* turn in which the outcome reaches async.map.  A page check is           *)
(* "inflight" from the timer's turn that starts its waterfall until that   *)
(* turn; the turns before it in which only the GET is sent or only its     *)
(* response is received change nothing that async.map, poll's callback or  *)
(* the consumer read, and are stuttering steps of this model.              *)
(*                                                                         *)
(* JavaScript runs each turn to completion, so one action is one turn with *)
(* everything it calls synchronously: StartPolling (module load of         *)
(* app.js), TimerFire (the setInterval handler) and HttpEnd.               *)
(***************************************************************************)
EXTENDS Integers, Sequences, FiniteSets, TLC

\* Number of timer firings explored.
MaxCycles == 2

\* Largest number of elements the selector matches in a fetched page.
MaxShows == 1

\* pages.length: the two entries of the `pages` array.
NumPages == 2

VARIABLES
  polling,        \* the setInterval timer is registered
  nCycles,        \* number of timer firings (poll() invocations) so far
  fetch,          \* fetch[c][p], the page check of page p in cycle c: "idle" |
                  \* "inflight" (waterfall started, outcome not yet with
                  \* async.map) | "done" (outcome handed to async.map)
  response,       \* response[c][p]: what the GET of page p in cycle c ended with, once done
  results,        \* results[c]: async.map's results array of cycle c
  completed,      \* completed[c]: async.each's count of page checks that completed without error
  called,         \* called[c]: async's `_once` guard of the final callback of cycle c
  delivered,      \* the consumer callback's invocations so far, in order
  currentResult,  \* app.js: the last result the consumer stored
  emails,         \* contents of the sendmail(...) calls, in order
  pushes          \* bodies of the pusher.note(...) calls, in order

vars == <<polling, nCycles, fetch, response, results, completed, called,
          delivered, currentResult, emails, pushes>>

Cycles == 1..MaxCycles

Pages == 1..NumPages

\* What superagent's `end` handler can receive: an error, or a response whose
\* markup holds `shows` elements matching the selector.
Responses ==
  {[err |-> TRUE, shows |-> 0]} \cup {[err |-> FALSE, shows |-> n] : n \in 0..MaxShows}

NoResponse == [err |-> FALSE, shows |-> 0]

\* JavaScript values held by the results array.
Undefined == "undefined"

Truthy(v) == v = "true"

\* processPage that reports a failed fetch as "no shows" instead of an error.
processPageSwallow(res) ==
  IF res.err THEN [err |-> "null", v |-> "false"]
  ELSE IF res.shows = 0 THEN [err |-> "null", v |-> "false"]
  ELSE [err |-> "null", v |-> "true"]

\* processPage(err, res, cb): the (err, value) handed to the waterfall's
\* callback, which is async.map's per-page callback.
processPage(res) ==
  IF res.err THEN [err |-> "error", v |-> Undefined]
  ELSE IF res.shows = 0 THEN [err |-> "null", v |-> "false"]
  ELSE [err |-> "null", v |-> "true"]

\* The reducer `acc || result`.
Or(acc, result) == IF Truthy(acc) THEN acc ELSE result

\* _.reduce(results, function(acc, result) {...}, false), left to right.
RECURSIVE reduce(_, _, _)
reduce(arr, i, acc) ==
  IF i > NumPages THEN acc ELSE reduce(arr, i + 1, Or(acc, arr[i]))

\* result.status
StatusOf(arr) ==
  IF Truthy(reduce(arr, 1, "false")) THEN "available" ELSE "unavailable"

\* A join in which an error neither counts as a completion nor calls the
\* final callback.
JoinFiresNoError(err, nDone) == nDone >= NumPages

\* async.each's done(err): the final callback is due on an error, or when
\* every page check has completed.  nDone counts the completions that count
\* towards the join after this one.
JoinFires(err, nDone) == err # "null" \/ nDone >= NumPages

\* A final callback with no once-guard.
OnceNoGuard(alreadyCalled) == TRUE

\* async's _once(callback): the final callback runs at most once.
Once(alreadyCalled) == ~alreadyCalled

\* An object: a reference (its identity) and its own properties.
Object(ref, props) == [ref |-> ref, val |-> props]

Get(obj, key) == CHOOSE v \in {"available", "unavailable"} : <<key, v>> \in obj.val

\* One result object kept by the poller and handed out by every invocation.
NewResultShared(ref, status) == Object(1, {<<"status", status>>})

\* `var result = {}; result.status = ...`: a new object per invocation.
NewResult(ref, status) == Object(ref, {<<"status", status>>})

\* `var currentResult = {}` seeded with a status.
InitialResultSeeded == Object(0, {<<"status", "unavailable">>})

\* `var currentResult = {}`
InitialResult == Object(0, {})

\* A comparison by identity (SameValueZero on object references).
isSame(a, b) == a.ref = b.ref

\* _.eq(a, b): lodash 3's alias of _.isEqual, a deep comparison by value.
isEqual(a, b) == a.val = b.val

\* 'Dismaland is now ' + result.status
Content(result) == <<"Dismaland is now ", Get(result, "status")>>

\* The status a notification carries.
Carried(content) == content[2]

Init ==
  /\ polling = FALSE
  /\ nCycles = 0
  /\ fetch = [c \in Cycles |-> [p \in Pages |-> "idle"]]
  /\ response = [c \in Cycles |-> [p \in Pages |-> NoResponse]]
  /\ results = [c \in Cycles |-> [p \in Pages |-> Undefined]]
  /\ completed = [c \in Cycles |-> 0]
  /\ called = [c \in Cycles |-> FALSE]
  /\ delivered = <<>>
  /\ currentResult = InitialResult
  /\ emails = <<>>
  /\ pushes = <<>>

\* poller.startPolling(callback): registers the interval timer.
StartPolling ==
  /\ ~polling
  /\ polling' = TRUE
  /\ UNCHANGED <<nCycles, fetch, response, results, completed, called,
                 delivered, currentResult, emails, pushes>>

\* A timer handler that skips the firing while an earlier cycle is in flight.
TimerFireSerialized ==
  /\ polling
  /\ nCycles < MaxCycles
  /\ \A c \in Cycles : \A p \in Pages : fetch[c][p] # "inflight"
  /\ nCycles' = nCycles + 1
  /\ fetch' = [fetch EXCEPT ![nCycles + 1] = [p \in Pages |-> "inflight"]]
  /\ UNCHANGED <<polling, response, results, completed, called,
                 delivered, currentResult, emails, pushes>>

\* The setInterval handler: self.poll(callback) starts one GET per page.
TimerFire ==
  /\ polling
  /\ nCycles < MaxCycles
  /\ nCycles' = nCycles + 1
  /\ fetch' = [fetch EXCEPT ![nCycles + 1] = [p \in Pages |-> "inflight"]]
  /\ UNCHANGED <<polling, response, results, completed, called,
                 delivered, currentResult, emails, pushes>>

\* A consumer that sends the email but not the push note.
ConsumeEmailOnly(result) ==
  IF ~isEqual(currentResult, result)
  THEN /\ currentResult' = result
       /\ emails' = Append(emails, Content(result))
       /\ UNCHANGED pushes
  ELSE UNCHANGED <<currentResult, emails, pushes>>

\* A consumer that notifies a change without storing the new result.
ConsumeNoStore(result) ==
  IF ~isEqual(currentResult, result)
  THEN /\ UNCHANGED currentResult
       /\ emails' = Append(emails, Content(result))
       /\ pushes' = Append(pushes, Content(result))
  ELSE UNCHANGED <<currentResult, emails, pushes>>

\* The consumer callback of app.js, given (err, result).
Consume(result) ==
  IF ~isEqual(currentResult, result)
  THEN /\ currentResult' = result
       /\ emails' = Append(emails, Content(result))
       /\ pushes' = Append(pushes, Content(result))
  ELSE UNCHANGED <<currentResult, emails, pushes>>

\* The turn in which the outcome of page p's check in cycle c reaches
\* async.map, given what superagent's `end` handler received: processPage,
\* async.map's per-page callback, async.each's done, and, when the join
\* fires, async.map's final callback and the consumer callback.
HttpEnd(c, p, res) ==
  /\ fetch[c][p] = "inflight"
  /\ LET out == processPage(res)
         arr == [results[c] EXCEPT ![p] = out.v]
         nDone == IF out.err = "null" THEN completed[c] + 1 ELSE completed[c]
         fire == JoinFires(out.err, nDone) /\ Once(called[c])
         result == NewResult(Len(delivered) + 1, StatusOf(arr))
         pending == Cardinality({q \in Pages \ {p} : fetch[c][q] = "inflight"})
     IN /\ fetch' = [fetch EXCEPT ![c][p] = "done"]
        /\ response' = [response EXCEPT ![c][p] = res]
        /\ results' = [results EXCEPT ![c] = arr]
        /\ completed' = [completed EXCEPT ![c] = nDone]
        /\ IF fire
           THEN /\ called' = [called EXCEPT ![c] = TRUE]
                /\ delivered' = Append(delivered,
                     [cycle |-> c, by |-> p, err |-> out.err,
                      result |-> result, pending |-> pending])
                /\ Consume(result)
           ELSE UNCHANGED <<called, delivered, currentResult, emails, pushes>>
  /\ UNCHANGED <<polling, nCycles>>

Next ==
  \/ StartPolling
  \/ TimerFire
  \/ \E c \in Cycles, p \in Pages, res \in Responses : HttpEnd(c, p, res)

Spec == Init /\ [][Next]_vars

\* Every HTTP request eventually completes, with a response or an error, and
\* the event loop runs every callback queued for it: the outcome of each
\* page check in flight eventually reaches async.map.
HttpCompletes ==
  \A c \in Cycles, p \in Pages :
    WF_vars(\E res \in Responses : HttpEnd(c, p, res))

LiveSpec == Init /\ [][Next]_vars /\ HttpCompletes

-----------------------------------------------------------------------------
(* Observations used by the properties below. *)

\* Every page check of cycle c has completed.
AllDone(c) == \A p \in Pages : fetch[c][p] = "done"

\* The GET of page p in cycle c ended with an error.
PageFailed(c, p) == fetch[c][p] = "done" /\ response[c][p].err

\* The page check of page p in cycle c found at least one matching element.
PageTrue(c, p) ==
  fetch[c][p] = "done" /\ ~response[c][p].err /\ response[c][p].shows >= 1

\* The consumer callback invocations made for cycle c.
DeliveriesOf(c) == {i \in DOMAIN delivered : delivered[i].cycle = c}

\* The status of the i-th delivered result.
DeliveredStatus(i) == Get(delivered[i].result, "status")

-----------------------------------------------------------------------------
\* C1: once every page check of a cycle has completed, the status delivered
\* for that cycle is "available" if and only if at least one of its page
\* checks produced true, whatever the order of completion.
C1_StatusIffAnyTrue ==
  \A i \in DOMAIN delivered :
    AllDone(delivered[i].cycle) =>
      (DeliveredStatus(i) = "available"
         <=> \E p \in Pages : PageTrue(delivered[i].cycle, p))

\* C2: in a cycle where one page check failed and another produced true, the
\* delivered status is "available" and the error argument is non-null,
\* whichever page check completed first.
C2_PartialFailureIsolation ==
  \A i \in DOMAIN delivered :
    LET c == delivered[i].cycle IN
      (/\ AllDone(c)
       /\ \E p \in Pages : PageFailed(c, p)
       /\ \E q \in Pages : PageTrue(c, q))
      => (DeliveredStatus(i) = "available" /\ delivered[i].err # "null")

\* C3: the consumer callback is invoked only when no other page check of the
\* same cycle is still to hand its outcome to async.map.
C3_NoFailFastJoin ==
  \A i \in DOMAIN delivered : delivered[i].pending = 0

\* C4: when every page check of a cycle has failed, the callback has been
\* invoked for that cycle, and with a non-null error argument.
C4_TotalFailureReported ==
  \A c \in Cycles :
    (\A p \in Pages : PageFailed(c, p)) =>
      (/\ DeliveriesOf(c) # {}
       /\ \A i \in DeliveriesOf(c) : delivered[i].err # "null")

\* C4 witness: a cycle whose page checks all failed has been delivered.
C4_Witness ==
  \E c \in Cycles :
    (\A p \in Pages : PageFailed(c, p)) /\ DeliveriesOf(c) # {}

\* C5: a cycle in which every page check failed never delivers the status
\* "unavailable", so the consumer neither stores it nor sends it.
C5_NoFalseUnavailable ==
  \A i \in DOMAIN delivered :
    (\A p \in Pages : PageFailed(delivered[i].cycle, p)) =>
      (/\ DeliveredStatus(i) # "unavailable"
       /\ currentResult # delivered[i].result)

\* C6: every poll() invokes its callback at most once at any time, and exactly
\* once when all its page checks have completed.
C6_ExactlyOnce ==
  \A c \in Cycles :
    /\ Cardinality(DeliveriesOf(c)) <= 1
    /\ AllDone(c) => Cardinality(DeliveriesOf(c)) = 1

\* C6 witness: a page check completed after its cycle's callback had run.
C6_Witness ==
  \E i \in DOMAIN delivered :
    delivered[i].pending > 0 /\ AllDone(delivered[i].cycle)

\* C7: a step that delivers a result sends one email and one push note and
\* replaces the stored result if and only if the delivered result differs in
\* value from the stored one; otherwise, and in every step that delivers
\* nothing, the stored result and the notifications stay as they are.
C7_ChangeDetection ==
  [][IF Len(delivered') = Len(delivered) + 1
     THEN LET r == delivered'[Len(delivered')].result IN
            IF r.val # currentResult.val
            THEN /\ currentResult' = r
                 /\ emails' = Append(emails, Content(r))
                 /\ pushes' = Append(pushes, Content(r))
            ELSE UNCHANGED <<currentResult, emails, pushes>>
     ELSE UNCHANGED <<delivered, currentResult, emails, pushes>>]_vars

\* C7 witness: some delivery was notified and a later one, equal in value to
\* the stored result, was not.
C7_Witness ==
  /\ Len(emails) >= 1
  /\ Len(emails) < Len(delivered)
  /\ currentResult.ref # delivered[Len(delivered)].result.ref

\* C8: two consecutive cycles that met the same responses deliver results
\* with the same status, and no two consecutive notifications carry the same
\* status.
C8_Idempotence ==
  /\ \A i, j \in DOMAIN delivered :
       LET c == delivered[i].cycle
           d == delivered[j].cycle
       IN (d = c + 1 /\ AllDone(c) /\ AllDone(d) /\ response[c] = response[d])
            => DeliveredStatus(i) = DeliveredStatus(j)
  /\ \A k \in 1..(Len(emails) - 1) : Carried(emails[k]) # Carried(emails[k + 1])

\* The premise of C9: exactly two results have been delivered, the first
\* cycle's with status "unavailable" and the second cycle's with "available".
Scenario4 ==
  /\ Len(delivered) = 2
  /\ \E i \in DeliveriesOf(1) : DeliveredStatus(i) = "unavailable"
  /\ \E j \in DeliveriesOf(2) : DeliveredStatus(j) = "available"

\* C9 as stated: in scenario 4 exactly one notification has been sent in
\* total, and it carries "available".
C9_ExactlyOneNotification ==
  Scenario4 => (Len(emails) = 1 /\ Carried(emails[1]) = "available")

\* C9 amended: in scenario 4 exactly two notifications have been sent on each
\* channel, one per delivered result and carrying its status, so exactly one
\* of them carries "available".
C9_OneNotificationPerResult ==
  Scenario4 =>
    /\ Len(emails) = 2
    /\ Len(pushes) = 2
    /\ \A i \in 1..2 :
         /\ Carried(emails[i]) = DeliveredStatus(i)
         /\ Carried(pushes[i]) = DeliveredStatus(i)
    /\ Cardinality({i \in 1..2 : Carried(emails[i]) = "available"}) = 1

\* C9 witness: scenario 4 has happened.
C9_Witness == Scenario4

\* C10: results are delivered in the order their cycles were started.
C10_ScheduleOrder ==
  \A i, j \in DOMAIN delivered :
    i < j => delivered[i].cycle < delivered[j].cycle

\* C11: once polling has started, the timer firing that starts the next
\* poll() is enabled in every state (up to the number of firings explored),
\* whether or not earlier cycles are in flight or ended with an error, and
\* the timer stays registered.
C11_FiringsIndependent ==
  /\ (polling /\ nCycles < MaxCycles) => ENABLED TimerFire
  /\ nCycles > 0 => polling

\* C11 witness: a firing is due while an earlier cycle has delivered an error
\* and still has a page check in flight.
C11_Witness ==
  /\ polling
  /\ nCycles < MaxCycles
  /\ \E i \in DOMAIN delivered :
       delivered[i].err # "null" /\ ~AllDone(delivered[i].cycle)

\* C12: if every HTTP request eventually completes, every timer firing is
\* eventually followed by an invocation of the consumer callback for its
\* cycle.
C12_EventualDelivery ==
  \A c \in Cycles : (nCycles >= c) ~> (DeliveriesOf(c) # {})

\* C12 witness: every cycle has been delivered, one on the completion of its
\* last page check without any error and one on an error.
C12_Witness ==
  /\ \A c \in Cycles : DeliveriesOf(c) # {} /\ AllDone(c)
  /\ \E i \in DOMAIN delivered :
       delivered[i].err = "null" /\ delivered[i].pending = 0
  /\ \E j \in DOMAIN delivered : delivered[j].err # "null"

\* C13: the emails and the push notes sent are equally many in every state,
\* and a step in which the consumer detects a change sends exactly one email
\* and exactly one push note, both carrying the status of the result just
\* delivered.
C13_BothChannels ==
  /\ [](Len(emails) = Len(pushes))
  /\ [][(/\ Len(delivered') = Len(delivered) + 1
         /\ delivered'[Len(delivered')].result.val # currentResult.val)
        => (/\ Len(emails') = Len(emails) + 1
            /\ Len(pushes') = Len(pushes) + 1
            /\ Carried(emails'[Len(emails')]) =
                 Get(delivered'[Len(delivered')].result, "status")
            /\ Carried(pushes'[Len(pushes')]) =
                 Get(delivered'[Len(delivered')].result, "status"))]_vars

\* C13 witness: two changes have been detected and notified on both channels.
C13_Witness ==
  /\ Len(emails) = 2
  /\ Len(pushes) = 2
  /\ Carried(pushes[1]) # Carried(pushes[2])

\* C14: every callback invocation, also one with an error, carries a result
\* object whose only content is a status "available" or "unavailable", and
\* that object is neither the one of another invocation nor the consumer's
\* initial object.
C14_FreshResult ==
  \A i \in DOMAIN delivered :
    /\ delivered[i].result.val \in
         {{<<"status", "available">>}, {<<"status", "unavailable">>}}
    /\ delivered[i].result.ref # InitialResult.ref
    /\ \A j \in DOMAIN delivered :
         i # j => delivered[i].result.ref # delivered[j].result.ref

\* C14 witness: two cycles have delivered, one of them with an error.
C14_Witness ==
  /\ DeliveriesOf(1) # {}
  /\ DeliveriesOf(2) # {}
  /\ \E i \in DOMAIN delivered : delivered[i].err # "null"

\* C15: after a callback invocation the stored result equals in value the
\* result most recently delivered, and once a notification has been sent the
\* latest notification on each channel carries the stored result's status.
C15_StoredIsLatest ==
  Len(delivered) >= 1 =>
    /\ currentResult.val = delivered[Len(delivered)].result.val
    /\ Len(emails) >= 1 =>
         Carried(emails[Len(emails)]) = Get(currentResult, "status")
    /\ Len(pushes) >= 1 =>
         Carried(pushes[Len(pushes)]) = Get(currentResult, "status")

\* C15 witness: the latest delivery equalled the stored result in value and
\* was not stored, and cycle 2 delivered before cycle 1.
C15_Witness ==
  /\ Len(delivered) = 2
  /\ delivered[1].cycle = 2
  /\ currentResult.ref = delivered[1].result.ref
  /\ Len(emails) = 1

\* C16: the first result delivered is always notified on both channels with
\* its own status, whatever that status and whether or not the cycle
\* reported an error.
C16_FirstResultNotifies ==
  Len(delivered) >= 1 =>
    /\ Len(emails) >= 1
    /\ Len(pushes) >= 1
    /\ Carried(emails[1]) = DeliveredStatus(1)
    /\ Carried(pushes[1]) = DeliveredStatus(1)

\* C16 witness: the first delivery carried an error and was notified.
C16_Witness ==
  /\ Len(delivered) = 1
  /\ delivered[1].err # "null"
  /\ Len(emails) = 1

=============================================================================
